---- MODULE Spec2Model ----
(***************************************************************************)
(* A model of the HyperLogLog counter of src/src/lib.rs: the register      *)
(* store and its operations (insert, estimate, merge, clear, compress,     *)
(* decompress) and the bias interpolation of estimate_bias.                *)
(*                                                                         *)
(* Representation.                                                         *)
(*  - A 64-bit hash is the set of the positions (0 = least significant)    *)
(*    of its one bits, so that the masks, shifts and leading_zeros of the  *)
(*    code are computed on all 64 bits.                                    *)
(*  - A register store is a function 0..REGISTERS-1 -> 0..255 (u8).        *)
(*  - f64 values are fixed-point integers in thousandths (Milli).          *)
(***************************************************************************)
EXTENDS Integers, Sequences, FiniteSets, TLC

\* last is [op, dst, arg, ret]: the operation, its store, the hash value of an
\* insert, and the estimate of estimate, the number of registers clear wiped,
\* or 1 for the Ok and 0 for the Err of decompress
VARIABLES
    P,          \* Registers::PRECISION of the stores of this run
    regs,       \* the registers of each store
    hist,       \* per store, the hash values inserted since it was zero
    last,       \* the last operation, its store and what it returned
    wire,       \* the payload the last compress returned
    panicked,   \* an operation panicked
    bias_in,    \* estimate_bias: its tables and its estimate
    window,     \* estimate_bias: min and max
    bias_pc,    \* estimate_bias: where it is
    bias_out    \* estimate_bias: what it returned

hllVars == <<P, regs, hist, last, wire, panicked>>

biasVars == <<bias_in, window, bias_pc, bias_out>>

vars == <<P, regs, hist, last, wire, panicked, bias_in, window, bias_pc, bias_out>>

----
(* Constants of the program *)

MinPrecision == 4

MaxPrecision == 11

\* The largest precision the model runs
MaxModelPrecision == 6

HashBits == 64

Precisions == MinPrecision..MaxModelPrecision

REGISTERS(p) == 2^p

zero(p) == [i \in 0..(REGISTERS(p) - 1) |-> 0]

----
(* The hash value x of insert, as the set of its one bits *)

RECURSIVE BitsValue(_)
BitsValue(S) ==
    IF S = {} THEN 0
    ELSE LET i == CHOOSE k \in S : TRUE IN 2^i + BitsValue(S \ {i})

\* x as usize & (REGISTERS - 1)
MaskLow(x, p) == BitsValue({i \in x : i < p})

\* x >> PRECISION
ShiftRight(x, p) == {i - p : i \in {k \in x : k >= p}}

\* The highest one bit of w
HighBit(w) == CHOOSE m \in w : \A k \in w : k <= m

leading_zeros(w) == IF w = {} THEN HashBits ELSE (HashBits - 1) - HighBit(w)

bit_length(w) == HashBits - leading_zeros(w)

Panic == -1

\* get_rho with rho one too large
get_rho_plus_two(w, max_width) ==
    IF max_width < bit_length(w) THEN Panic
    ELSE LET rho == max_width - bit_length(w) + 2
         IN IF rho > 255 \/ ~(rho > 0) THEN Panic ELSE rho

\* rho is a u8: an underflow of the subtraction and a failed assert!(rho > 0)
\* are panics.  insert calls it with max_width = 64 - p and w = x >> p only.
get_rho(w, max_width) ==
    IF max_width < bit_length(w) THEN Panic
    ELSE LET rho == max_width - bit_length(w) + 1
         IN IF rho > 255 \/ ~(rho > 0) THEN Panic ELSE rho

\* insert that writes rho into an empty register only
insert_first_wins(r, x, p) ==
    LET j   == MaskLow(x, p)
        w   == ShiftRight(x, p)
        rho == get_rho(w, HashBits - p)
    IN IF rho = Panic \/ j \notin DOMAIN r
       THEN [panicked |-> TRUE, registers |-> r]
       ELSE [panicked |-> FALSE,
             registers |-> IF r[j] = 0 THEN [r EXCEPT ![j] = rho] ELSE r]

\* insert that writes rho whatever the register holds
insert_overwrite(r, x, p) ==
    LET j   == MaskLow(x, p)
        w   == ShiftRight(x, p)
        rho == get_rho(w, HashBits - p)
    IN IF rho = Panic \/ j \notin DOMAIN r
       THEN [panicked |-> TRUE, registers |-> r]
       ELSE [panicked |-> FALSE, registers |-> [r EXCEPT ![j] = rho]]

\* [panicked, registers]: the registers after insert of a value whose hash is x
insert(r, x, p) ==
    LET j   == MaskLow(x, p)
        w   == ShiftRight(x, p)
        rho == get_rho(w, HashBits - p)
    IN IF rho = Panic \/ j \notin DOMAIN r
       THEN [panicked |-> TRUE, registers |-> r]
       ELSE [panicked |-> FALSE,
             registers |-> IF rho > r[j] THEN [r EXCEPT ![j] = rho] ELSE r]

MaxOf(a, b) == IF a >= b THEN a ELSE b

\* merge that copies the source
merge_overwrite(dst, src) == [i \in DOMAIN dst |-> src[i]]

\* merge that stops one register short
merge_skip_last(dst, src) ==
    [i \in DOMAIN dst |->
        IF i + 1 \in DOMAIN dst THEN MaxOf(dst[i], src[i]) ELSE dst[i]]

merge(dst, src) == [i \in DOMAIN dst |-> MaxOf(dst[i], src[i])]

\* clear that leaves the first register
clear_skip_first(r) == [i \in DOMAIN r |-> IF i = 0 THEN r[i] ELSE 0]

clear(r) == [i \in DOMAIN r |-> 0]

----
(* estimate: f64 values are fixed-point integers in thousandths *)

Milli == 1000

FracBits == 14

\* The per-precision threshold of weights.rs, indexed by p - 4
THRESHOLD_DATA == <<10, 20, 40, 80, 220, 400, 900, 1800>>

get_threshold(p) == THRESHOLD_DATA[(p - 4) + 1] * Milli

\* 0.7213 / (1.0 + 1.079 / 2^p) in thousandths
get_alpha(p) ==
    IF p < 4 \/ p > 18 THEN Panic
    ELSE CASE p = 4 -> 673
           [] p = 5 -> 697
           [] p = 6 -> 709
           [] OTHER -> (7213 * REGISTERS(p) * 100) \div (1000 * REGISTERS(p) + 1079)

RECURSIVE FloorLog2(_, _)
FloorLog2(num, den) == IF 2 * den <= num THEN 1 + FloorLog2(num, 2 * den) ELSE 0

\* The n leading fraction bits of log2(m / 2^FracBits), for 1 <= m / 2^FracBits < 2
RECURSIVE Log2Frac(_, _)
Log2Frac(m, n) ==
    IF n = 0 THEN 0
    ELSE LET sq == (m * m) \div 2^FracBits
         IN IF sq >= 2 * 2^FracBits
            THEN 2^(n - 1) + Log2Frac(sq \div 2, n - 1)
            ELSE Log2Frac(sq, n - 1)

\* (num / den).ln() in thousandths, for num >= den > 0
ln(num, den) ==
    LET k    == FloorLog2(num, den)
        m    == (num * 2^FracBits) \div (den * 2^k)
        log2 == k * 2^10 + Log2Frac(m, 10)
    IN (log2 * 693) \div 2^10

\* bytecount::count(registers, 0)
CountZero(r) == Cardinality({i \in DOMAIN r : r[i] = 0})

\* 2.0f64.powi(-x) with 16 fraction bits
powi2neg(x) == IF x <= 16 THEN 2^(16 - x) ELSE 0

RECURSIVE SumPow(_, _, _)
SumPow(r, lo, hi) ==
    IF hi - lo = 1 THEN powi2neg(r[lo])
    ELSE LET mid == (lo + hi) \div 2 IN SumPow(r, lo, mid) + SumPow(r, mid, hi)

\* The largest estimate the fixed-point values hold
Saturated == 2^30

\* get_alpha(p) * REGISTERS^2 / sum, in thousandths
RawEstimate(r, p) ==
    LET M   == REGISTERS(p)
        avg == SumPow(r, 0, M) \div (M * 2^6)
    IN IF avg = 0 THEN Saturated ELSE (get_alpha(p) * M * 2^10) \div avg

BiasNeighbors == 6

\* estimate_vector.partition_point(|&x| x < estimate), the vector being sorted
partition_point(vec, estimate) == Cardinality({i \in DOMAIN vec : vec[i] < estimate})

WindowMin(pp) == IF pp > BiasNeighbors THEN pp - BiasNeighbors ELSE 0

\* WindowMax without the cap at the length of the table
WindowMax_uncapped(pp, len) == pp + BiasNeighbors

WindowMax(pp, len) == IF pp + BiasNeighbors <= len THEN pp + BiasNeighbors ELSE len

\* One iteration of the loop of estimate_bias on the window [w.min, w.max)
ShrinkStep(w, vec, estimate) ==
    LET min_val == vec[w.min]
        max_val == vec[w.max - 1]
    IN IF 2 * estimate - min_val > max_val
       THEN [w EXCEPT !.min = @ + 1]
       ELSE [w EXCEPT !.max = @ - 1]

RECURSIVE Shrink(_, _, _)
Shrink(w, vec, estimate) ==
    IF w.max - w.min = BiasNeighbors THEN w
    ELSE Shrink(ShrinkStep(w, vec, estimate), vec, estimate)

RECURSIVE SumBias(_, _, _)
SumBias(bias, lo, hi) == IF lo >= hi THEN 0 ELSE bias[lo] + SumBias(bias, lo + 1, hi)

\* (min..max).map(|i| bias_vector[i]).sum::<f64>() / 6.0
MeanBias(bias, w) == SumBias(bias, w.min, w.max) \div BiasNeighbors

\* t.raw is RAW_ESTIMATE_DATA[p - 4] and t.bias is BIAS_DATA[p - 4], as
\* functions on 0..len-1
estimate_bias(estimate, t) ==
    LET len == Cardinality(DOMAIN t.raw)
        pp  == partition_point(t.raw, estimate)
        w   == Shrink([min |-> WindowMin(pp), max |-> WindowMax(pp, len)], t.raw, estimate)
    IN MeanBias(t.bias, w)

estimate(r, p, t) ==
    LET M    == REGISTERS(p)
        Z    == CountZero(r)
        lin  == M * ln(M, Z)
        raw  == RawEstimate(r, p)
    IN IF Z > 0 /\ lin <= get_threshold(p) THEN lin
       ELSE IF raw <= 5 * M * Milli THEN raw - estimate_bias(raw, t)
       ELSE raw

----
(***************************************************************************)
(* compress and decompress.  The arithmetic coder and its adaptive model   *)
(* are the arcode crate's; they are modelled at the interface the code     *)
(* uses.  The model holds one count per symbol (all 1 at the start) and    *)
(* their total.  An encoded symbol is the sub-interval <<lo, hi, total>>   *)
(* of the cumulative counts that the encoder's model gives the symbol;     *)
(* decoding finds the symbol whose sub-interval in the decoder's model     *)
(* holds the low end of the next encoded interval, and fails when the      *)
(* input is used up.  The bit-level output (finish_encode, pad_to_byte)    *)
(* is not modelled: a payload is the sequence of encoded intervals.        *)
(***************************************************************************)

compression_symbols(precision) == 64 + 1 - precision

\* Model::builder().num_symbols(n).eof(EOFKind::None).build()
ModelNew(n) == [counts |-> [s \in 0..(n - 1) |-> 1], total |-> n, panicked |-> FALSE]

\* model.update_symbol(sym): indexing the counts past their end panics
update_symbol(m, sym) ==
    IF sym \in DOMAIN m.counts
    THEN [m EXCEPT !.counts[sym] = @ + 1, !.total = @ + 1]
    ELSE [m EXCEPT !.panicked = TRUE]

RECURSIVE CumLow(_, _)
CumLow(m, sym) == IF sym = 0 THEN 0 ELSE m.counts[sym - 1] + CumLow(m, sym - 1)

\* encoder.encode(sym, &model, writer)
encode(sym, m) ==
    [lo |-> CumLow(m, sym), hi |-> CumLow(m, sym) + m.counts[sym], total |-> m.total]

RECURSIVE FindSymbol(_, _, _, _)
FindSymbol(m, e, s, cum) ==
    IF (cum + m.counts[s]) * e.total > e.lo * m.total THEN s
    ELSE FindSymbol(m, e, s + 1, cum + m.counts[s])

\* decoder.decode(&model, reader) on the encoded interval e
decode(m, e) == FindSymbol(m, e, 0, 0)

MinOf(a, b) == IF a <= b THEN a ELSE b

\* The symbol compress passes to encoder.encode for the register value sym
EncodedSymbol(sym, p) == MinOf(sym, 64 - p)

\* The symbol compress passes to model.update_symbol for the register value sym
UpdatedSymbol(sym, p) == sym

\* One iteration of the loop of compress
CompressStep(st, sym, p) ==
    IF st.panicked THEN st
    ELSE LET e  == encode(EncodedSymbol(sym, p), st.model)
             m2 == update_symbol(st.model, UpdatedSymbol(sym, p))
         IN IF m2.panicked
            THEN [st EXCEPT !.panicked = TRUE]
            ELSE [model |-> m2, out |-> Append(st.out, e), panicked |-> FALSE]

\* The loop of compress over the registers lo..hi-1, the left half first
RECURSIVE CompressLoop(_, _, _, _, _)
CompressLoop(r, lo, hi, st, p) ==
    IF hi - lo = 1 THEN CompressStep(st, r[lo], p)
    ELSE LET mid  == (lo + hi) \div 2
             left == CompressLoop(r, lo, mid, st, p)
         IN IF left.panicked THEN left ELSE CompressLoop(r, mid, hi, left, p)

\* [panicked, out]: the payload compress returns, or its panic
compress(r, p) ==
    CompressLoop(r, 0, REGISTERS(p),
                 [model |-> ModelNew(compression_symbols(p)), out |-> <<>>,
                  panicked |-> FALSE], p)

\* One iteration of the loop of decompress: register i
DecompressStep(st, i, data) ==
    IF ~st.ok THEN st
    ELSE IF st.pos > Len(data) THEN [st EXCEPT !.ok = FALSE]
    ELSE LET sym == decode(st.model, data[st.pos])
         IN [model |-> update_symbol(st.model, sym), pos |-> st.pos + 1,
             registers |-> [st.registers EXCEPT ![i] = sym % 256], ok |-> TRUE]

RECURSIVE DecompressLoop(_, _, _, _)
DecompressLoop(lo, hi, st, data) ==
    IF hi - lo = 1 THEN DecompressStep(st, lo, data)
    ELSE LET mid  == (lo + hi) \div 2
             left == DecompressLoop(lo, mid, st, data)
         IN IF left.ok THEN DecompressLoop(mid, hi, left, data) ELSE left

\* [ok, registers]: Ok(()) or Err(()), and the registers decompress leaves
decompress(r, data, p) ==
    LET st == DecompressLoop(0, REGISTERS(p),
                  [model |-> ModelNew(compression_symbols(p)), pos |-> 1,
                   registers |-> r, ok |-> TRUE], data)
    IN [ok |-> st.ok, registers |-> st.registers]

----
(* The inputs of the model *)

\* Hash values: all bits zero (bucket 0, w = 0), the top bit and the low p bits
\* (the last bucket, the longest w) and the low p + 1 bits (the last bucket, w = 1)
HashSamples(p) == {{}, (0..(p - 1)) \cup {HashBits - 1}, 0..p}

\* Calibration tables in thousandths: t.raw sorted, both on 0..len-1
WeightSamples ==
    {[raw  |-> [i \in 0..7 |-> 11000 + 700 * i],
      bias |-> [i \in 0..7 |-> 10000 - 400 * i]],
     [raw  |-> [i \in 0..5 |-> 11000 + 9000 * (i \div 3)],
      bias |-> [i \in 0..5 |-> 10000 - i * i]]}

\* The insertion history of a store: ok while the store is the result of
\* inserts and merges on a zero store, vals the hash values inserted
NoHistory == [ok |-> FALSE, vals |-> {}]

NoWire == <<>>

\* The hash values of the runs with the codec: w = 0 and w = 1
CodecSamples(p) == {{}, 0..p}

----
(* The state machine of the stores *)

BiasIdle ==
    /\ bias_in = [raw |-> <<>>, bias |-> <<>>, estimate |-> 0]
    /\ window = [min |-> 0, max |-> 0]
    /\ bias_pc = "idle"
    /\ bias_out = 0

InitStores(S) ==
    /\ P \in Precisions
    /\ regs = [s \in S |-> zero(P)]
    /\ hist = [s \in S |-> [ok |-> TRUE, vals |-> {}]]
    /\ last = [op |-> "new", dst |-> "a", arg |-> {}, ret |-> 0]
    /\ wire = NoWire
    /\ panicked = FALSE
    /\ BiasIdle

Insert(s, x) ==
    /\ ~panicked
    /\ LET r == insert(regs[s], x, P)
       IN IF r.panicked
          THEN /\ panicked' = TRUE
               /\ UNCHANGED <<regs, hist>>
          ELSE /\ regs' = [regs EXCEPT ![s] = r.registers]
               /\ hist' = [hist EXCEPT ![s].vals = @ \cup {x}]
               /\ UNCHANGED panicked
    /\ last' = [op |-> "insert", dst |-> s, arg |-> x, ret |-> 0]
    /\ UNCHANGED <<P, wire, biasVars>>

Merge(d, s) ==
    /\ ~panicked
    /\ d # s
    /\ regs' = [regs EXCEPT ![d] = merge(regs[d], regs[s])]
    /\ hist' = [hist EXCEPT ![d] = [ok   |-> hist[d].ok /\ hist[s].ok,
                                    vals |-> hist[d].vals \cup hist[s].vals]]
    /\ last' = [op |-> "merge", dst |-> d, arg |-> {}, ret |-> 0]
    /\ UNCHANGED <<P, wire, panicked, biasVars>>

Clear(s) ==
    /\ ~panicked
    /\ regs' = [regs EXCEPT ![s] = clear(regs[s])]
    /\ hist' = [hist EXCEPT ![s] = [ok |-> TRUE, vals |-> {}]]
    /\ last' = [op |-> "clear", dst |-> s, arg |-> {},
                ret |-> REGISTERS(P) - CountZero(regs[s])]
    /\ UNCHANGED <<P, wire, panicked, biasVars>>

Estimate(s, t) ==
    /\ ~panicked
    /\ last' = [op |-> "estimate", dst |-> s, arg |-> {}, ret |-> estimate(regs[s], P, t)]
    /\ UNCHANGED <<P, regs, hist, wire, panicked, biasVars>>

Compress(s) ==
    /\ ~panicked
    /\ LET c == compress(regs[s], P)
       IN IF c.panicked
          THEN /\ panicked' = TRUE
               /\ UNCHANGED wire
          ELSE /\ wire' = c.out
               /\ UNCHANGED panicked
    /\ last' = [op |-> "compress", dst |-> s, arg |-> {}, ret |-> 0]
    /\ UNCHANGED <<P, regs, hist, biasVars>>

\* The payloads handed to decompress: the last payload, whole or cut short
Payloads == {SubSeq(wire, 1, n) : n \in {Len(wire), Len(wire) - 1}}

Decompress(s, data) ==
    /\ ~panicked
    /\ wire # NoWire
    /\ LET d == decompress(regs[s], data, P)
       IN /\ regs' = [regs EXCEPT ![s] = d.registers]
          /\ last' = [op |-> "decompress", dst |-> s, arg |-> {},
                      ret |-> IF d.ok THEN 1 ELSE 0]
    /\ hist' = [hist EXCEPT ![s] = NoHistory]
    /\ UNCHANGED <<P, wire, panicked, biasVars>>

TwoStores == {"a", "b"}

ThreeStores == {"a", "b", "c"}

Init == InitStores(TwoStores)

Next ==
    \/ \E s \in TwoStores : \E x \in HashSamples(P) : Insert(s, x)
    \/ \E d \in TwoStores : \E s \in TwoStores : Merge(d, s)
    \/ \E s \in TwoStores : Clear(s)
    \/ \E s \in TwoStores : \E t \in WeightSamples : Estimate(s, t)

\* insert, merge, clear and estimate on two stores
Spec == Init /\ [][Next]_vars

InitMerge == InitStores(ThreeStores)

NextMerge ==
    \/ \E s \in ThreeStores : \E x \in HashSamples(P) : Insert(s, x)
    \/ \E d \in ThreeStores : \E s \in ThreeStores : Merge(d, s)
    \/ \E s \in ThreeStores : Clear(s)

\* insert, merge and clear on three stores
SpecMerge == InitMerge /\ [][NextMerge]_vars

CodecStores == TwoStores

InitCodec == InitStores(CodecStores)

NextCodec ==
    \/ \E s \in CodecStores : \E x \in CodecSamples(P) : Insert(s, x)
    \/ \E d \in CodecStores : \E s \in CodecStores : Merge(d, s)
    \/ \E s \in CodecStores : Clear(s)
    \/ \E s \in CodecStores : Compress(s)
    \/ \E s \in CodecStores : \E data \in Payloads : Decompress(s, data)

\* insert, merge, clear, compress and decompress on two stores
SpecCodec == InitCodec /\ [][NextCodec]_vars

----
(* estimate_bias, one step of its loop at a time, on every sorted table *)

\* The longest table of the runs of estimate_bias
MaxTableLen == 13

\* The largest value of a table of the runs of estimate_bias
MaxTableVal == 3

\* The sorted table of length n whose value rises by one at each index of B
SortedTable(n, B) ==
    [i \in 0..(n - 1) |-> Cardinality({k \in DOMAIN B : B[k] <= i})]

SortedTables ==
    {SortedTable(n, B) :
        n \in BiasNeighbors..MaxTableLen,
        B \in {C \in [1..MaxTableVal -> 0..MaxTableLen] :
                   \A k \in 1..(MaxTableVal - 1) : C[k] <= C[k + 1]}}

BiasTable(raw) == [i \in DOMAIN raw |-> 1000 - i * i]

InitBias ==
    /\ P = MinPrecision
    /\ regs = [s \in TwoStores |-> zero(P)]
    /\ hist = [s \in TwoStores |-> NoHistory]
    /\ last = [op |-> "new", dst |-> "a", arg |-> {}, ret |-> 0]
    /\ wire = NoWire
    /\ panicked = FALSE
    /\ \E raw \in SortedTables : \E e \in (0 - 1)..(MaxTableVal + 1) :
           bias_in = [raw |-> raw, bias |-> BiasTable(raw), estimate |-> e]
    /\ window = [min |-> 0, max |-> 0]
    /\ bias_pc = "start"
    /\ bias_out = 0

TableLen == Cardinality(DOMAIN bias_in.raw)

\* let partition_point, let mut min, let mut max
BiasStart ==
    /\ bias_pc = "start"
    /\ LET pp == partition_point(bias_in.raw, bias_in.estimate)
       IN window' = [min |-> WindowMin(pp), max |-> WindowMax(pp, TableLen)]
    /\ bias_pc' = "loop"
    /\ UNCHANGED <<bias_in, bias_out, hllVars>>

\* An index outside the table, or max - min below zero, panics
BiasShrink ==
    /\ bias_pc = "loop"
    /\ window.max - window.min # BiasNeighbors
    /\ IF /\ window.min \in DOMAIN bias_in.raw
          /\ (window.max - 1) \in DOMAIN bias_in.raw
          /\ window.max - window.min >= 0
       THEN /\ window' = ShrinkStep(window, bias_in.raw, bias_in.estimate)
            /\ UNCHANGED <<bias_pc, panicked>>
       ELSE /\ bias_pc' = "panic"
            /\ panicked' = TRUE
            /\ UNCHANGED window
    /\ UNCHANGED <<bias_in, bias_out, P, regs, hist, last, wire>>

BiasReturn ==
    /\ bias_pc = "loop"
    /\ window.max - window.min = BiasNeighbors
    /\ IF \A i \in window.min..(window.max - 1) : i \in DOMAIN bias_in.bias
       THEN /\ bias_out' = MeanBias(bias_in.bias, window)
            /\ bias_pc' = "done"
            /\ UNCHANGED panicked
       ELSE /\ bias_pc' = "panic"
            /\ panicked' = TRUE
            /\ UNCHANGED bias_out
    /\ UNCHANGED <<bias_in, window, P, regs, hist, last, wire>>

NextBias == BiasStart \/ BiasShrink \/ BiasReturn

SpecBias == InitBias /\ [][NextBias]_vars

----
(* Definitions the properties use *)

AllStores == DOMAIN regs

Buckets == 0..(REGISTERS(P) - 1)

\* The largest value insert writes: rho for w = 0
MaxRho == HashBits - P + 1

\* The registers after the inserts of the hash values of seq, in order
RECURSIVE InsertSeq(_, _, _)
InsertSeq(r, seq, p) ==
    IF seq = <<>> THEN r
    ELSE InsertSeq(insert(r, Head(seq), p).registers, Tail(seq), p)

\* The longest sequence of inserts the properties try
MaxSeqLen == 3

SeqsUpTo(S, n) == UNION {[1..k -> S] : k \in 0..n}

Range(seq) == {seq[k] : k \in DOMAIN seq}

\* The sequences that hold each value of S once
Orders(S) == {seq \in [1..Cardinality(S) -> S] : Range(seq) = S}

RECURSIVE SumOver(_, _)
SumOver(f, S) ==
    IF S = {} THEN 0
    ELSE LET i == CHOOSE k \in S : TRUE IN f[i] + SumOver(f, S \ {i})

\* The bucket of the hash value x: the number whose binary digits are the low
\* P bits of x
BucketOf(x) ==
    CHOOSE j \in Buckets : \A i \in 0..(P - 1) : (i \in x) <=> ((j \div 2^i) % 2 = 1)

\* Some order of the values of S
Canon(S) == CHOOSE seq \in Orders(S) : TRUE

----
(* The properties *)

\* C1, as stated: every register of every store reached by insert, merge,
\* clear and decompress lies in [0, 64 - P], also after an insert whose hash
\* has w = 0.
C1_RegistersAtMost64MinusP ==
    \A s \in AllStores : \A i \in Buckets : regs[s][i] \in 0..(64 - P)

\* C1, amended: every register of every store reached by insert, merge, clear
\* and decompress lies in [0, 65 - P], and an insert whose hash has w = 0
\* leaves 65 - P in its register.
C1_RegistersAtMost65MinusP ==
    /\ \A s \in AllStores : \A i \in Buckets : regs[s][i] \in 0..(65 - P)
    /\ (last.op = "insert" /\ last.arg = {}) => regs[last.dst][0] = 65 - P

C1_WitnessInsertOfZeroW ==
    /\ last.op = "insert" /\ last.arg = {}
    /\ regs[last.dst][0] = MaxRho
    /\ \E s \in AllStores : ~hist[s].ok

\* C2: for every store s reached by insert, merge and clear, compress(s)
\* returns a payload, and decompress of that payload into a zero store returns
\* Ok and leaves a store equal to s.
C2_RoundTrip ==
    \A s \in AllStores :
        hist[s].ok =>
            LET c == compress(regs[s], P)
            IN /\ ~c.panicked
               /\ LET d == decompress(zero(P), c.out, P)
                  IN d.ok /\ d.registers = regs[s]

\* C3: merge is commutative, associative and idempotent and has the zero store
\* as its identity on the stores reached (the stores a, b and c take every
\* triple of them), and a merge changes no store but its destination.
C3_MergeAlgebra ==
    /\ [](LET A == regs["a"]
               B == regs["b"]
               C == regs["c"]
           IN /\ merge(A, B) = merge(B, A)
              /\ merge(merge(A, B), C) = merge(A, merge(B, C))
              /\ merge(A, A) = A
              /\ merge(A, zero(P)) = A)
    /\ [][last'.op = "merge" =>
            \A s \in AllStores \ {last'.dst} : regs'[s] = regs[s]]_vars

C3_WitnessMerge ==
    /\ last.op = "merge"
    /\ \E x \in AllStores : \E y \in AllStores :
          merge(regs[x], regs[y]) \notin {regs[x], regs[y]}
    /\ \A s \in AllStores : regs[s] # zero(P)

\* C4: after a merge into a store built by inserts (and merges of such stores)
\* on a zero store, the store equals the zero store after the inserts, in any
\* order and with repetitions, of all the values of both.
C4_MergeIsInsertOfUnion ==
    (last.op = "merge" /\ hist[last.dst].ok) =>
        \A seq \in SeqsUpTo(HashSamples(P), MaxSeqLen) :
            Range(seq) = hist[last.dst].vals =>
                InsertSeq(zero(P), seq, P) = regs[last.dst]

C4_WitnessMergeOfTwoStreams ==
    /\ last.op = "merge" /\ hist[last.dst].ok
    /\ \E s \in AllStores \ {last.dst} :
          /\ hist[s].vals # {}
          /\ hist[s].vals \subseteq hist[last.dst].vals
          /\ hist[s].vals # hist[last.dst].vals
          /\ merge(zero(P), regs[s]) # regs[last.dst]
    /\ Cardinality(hist[last.dst].vals) = Cardinality(HashSamples(P))

\* C5: the store reached by inserting a sequence of values into a store (the
\* store of the last operation: each store reached is that of some state)
\* depends on the set of its values only: every sequence, with its order and
\* its repetitions, leaves what one fixed order of its distinct values leaves.
C5_InsertDependsOnSetOnly ==
    \A S \in SUBSET HashSamples(P) :
        LET one == InsertSeq(regs[last.dst], Canon(S), P)
        IN \A seq \in SeqsUpTo(S, MaxSeqLen) :
              Range(seq) = S => InsertSeq(regs[last.dst], seq, P) = one

C5_WitnessTwoInOneBucket ==
    /\ last.op = "insert"
    /\ \E x \in hist[last.dst].vals : \E y \in hist[last.dst].vals :
          /\ x # y
          /\ BucketOf(x) = BucketOf(y)
          /\ insert(zero(P), x, P).registers # insert(zero(P), y, P).registers
    /\ regs[last.dst][0] > 0

\* C7: after clear every register of the store is 0, all REGISTERS of them
\* count as zero, the linear-counting estimate is within the threshold, and
\* estimate returns exactly 0.
C7_ClearThenEstimateZero ==
    /\ last.op = "clear" =>
          /\ \A i \in Buckets : regs[last.dst][i] = 0
          /\ CountZero(regs[last.dst]) = REGISTERS(P)
          /\ REGISTERS(P) * ln(REGISTERS(P), CountZero(regs[last.dst])) <= get_threshold(P)
          /\ \A t \in WeightSamples : estimate(regs[last.dst], P, t) = 0
    /\ (last.op = "estimate" /\ regs[last.dst] = zero(P)) => last.ret = 0

C7_WitnessClearOfFilledStore ==
    /\ last.op = "clear"
    /\ last.ret > 1

\* C8: an insert changes no register but the one at the bucket of its hash
\* value (no other store, and no other register of its store) and does not
\* panic, and no insert and no merge lowers a register of its store.
C8_InsertFrameAndMonotone ==
    [][/\ last'.op = "insert" =>
            /\ ~panicked'
            /\ \A s \in AllStores \ {last'.dst} : regs'[s] = regs[s]
            /\ LET j == BucketOf(last'.arg)
               IN \A i \in Buckets \ {j} : regs'[last'.dst][i] = regs[last'.dst][i]
       /\ last'.op \in {"insert", "merge"} =>
            \A i \in Buckets : regs'[last'.dst][i] >= regs[last'.dst][i]]_vars

C8_WitnessInsertBesideOthers ==
    /\ last.op = "insert"
    /\ regs[last.dst][BucketOf(last.arg)] > 0
    /\ \E i \in Buckets : i # BucketOf(last.arg) /\ regs[last.dst][i] > 0
    /\ ~panicked

\* C9: for every register of every store, compress completes, and the symbol
\* it passes to the coder and the symbol it updates the adaptive model with
\* are the same value in 0..=64-P.
C9_SameSymbolCodedAndCounted ==
    \A s \in AllStores :
        /\ ~compress(regs[s], P).panicked
        /\ \A i \in Buckets :
              /\ EncodedSymbol(regs[s][i], P) = UpdatedSymbol(regs[s][i], P)
              /\ EncodedSymbol(regs[s][i], P) \in 0..(64 - P)

C10_WindowInTable ==
    LET len == TableLen
        pp  == partition_point(bias_in.raw, bias_in.estimate)
        w   == window
    IN /\ bias_pc # "panic"
       /\ bias_pc \in {"loop", "done"} =>
             /\ 0 <= w.min /\ w.max <= len
             /\ w.max - w.min >= BiasNeighbors
             /\ w.min <= pp /\ pp <= w.max
       /\ bias_pc = "done" =>
             /\ w.max - w.min = 6
             /\ bias_out = SumOver(bias_in.bias, w.min..(w.max - 1)) \div 6

C10_LoopStep ==
    (bias_pc = "loop" /\ bias_pc' = "loop") =>
        /\ window'.max - window'.min = window.max - window.min - 1
        /\ window.min \in DOMAIN bias_in.raw
        /\ (window.max - 1) \in DOMAIN bias_in.raw

\* C10: on every sorted table of at least 6 values and every estimate, the
\* window of estimate_bias stays inside the table and at least 6 wide with the
\* partition point inside it or at its end, a step of the loop makes it one
\* narrower and reads inside the table, the loop ends with exactly 6 indices,
\* and the bias returned is the mean of the bias values at those 6 indices.
C10_BiasWindow == []C10_WindowInTable /\ [][C10_LoopStep]_vars

C10_WitnessBothEndsMoved ==
    LET pp == partition_point(bias_in.raw, bias_in.estimate)
    IN /\ bias_pc = "done"
       /\ WindowMin(pp) < window.min
       /\ window.max < WindowMax(pp, TableLen)
       /\ window.max - window.min = BiasNeighbors

====
